---- MODULE Spec2Model ----
(***************************************************************************)
(* The streaming ingest / transform / checkpoint pipeline of wiki_api.py.  *)
(* A Python str is a sequence of one-code-point strings; None and the two  *)
(* ways a JSON key can carry no value are one-element marker sequences, so *)
(* every value of the model is a sequence of strings.                      *)
(***************************************************************************)
EXTENDS Integers, Sequences, FiniteSets, TLC

\* ------------------------------------------------------------------ bounds
MaxLines == 4
MaxInterval == 2
CappedExtraLines == 1
CappedInterval == 20
MaxTextLen == 3
limit == 50

\* ------------------------------------------------------------------ values
None == <<"<None>">>
Absent == <<"<absent>">>
JsonNull == <<"<null>">>

Letters == {"a", "b", "U+00E9", "U+4E2D"}
Whitespace == {" ", "U+000A"}
Digits == <<"0", "1", "2", "3", "4", "5", "6", "7", "8", "9">>

\* Python truthiness of a str-or-None value: None and "" are falsy.
Truthy(v) == v # None /\ v # <<>>

RECURSIVE Replace(_, _, _)
Replace(s, old, new) ==
  IF s = <<>> THEN <<>>
  ELSE <<IF Head(s) = old THEN new ELSE Head(s)>> \o Replace(Tail(s), old, new)

format_title(title) ==
  IF Truthy(title) THEN Replace(title, " ", "_") ELSE None

KeptByPattern(c) == c \in Letters \/ c \in Whitespace

RECURSIVE Sub(_)
Sub(s) ==
  IF s = <<>> THEN <<>>
  ELSE (IF KeptByPattern(Head(s)) THEN <<Head(s)>> ELSE <<>>) \o Sub(Tail(s))

clean_text(text) ==
  IF Truthy(text) THEN Sub(text) ELSE None

extract_language_code(prefix) ==
  SubSeq(prefix, 1, IF Len(prefix) < 2 THEN Len(prefix) ELSE 2)

\* str(n) for n >= 0
RECURSIVE Str(_)
Str(n) ==
  IF n < 10 THEN <<Digits[n + 1]>> ELSE Str(n \div 10) \o <<Digits[(n % 10) + 1]>>

\* str.encode('utf-8') of a string of ASCII digits: one byte per character.
Ord(c) == 47 + (CHOOSE k \in 1..10 : Digits[k] = c)

RECURSIVE Encode(_)
Encode(s) == IF s = <<>> THEN <<>> ELSE <<Ord(Head(s))>> \o Encode(Tail(s))

B64Alphabet ==
  << "A", "B", "C", "D", "E", "F", "G", "H", "I", "J", "K", "L", "M",
     "N", "O", "P", "Q", "R", "S", "T", "U", "V", "W", "X", "Y", "Z",
     "a", "b", "c", "d", "e", "f", "g", "h", "i", "j", "k", "l", "m",
     "n", "o", "p", "q", "r", "s", "t", "u", "v", "w", "x", "y", "z",
     "0", "1", "2", "3", "4", "5", "6", "7", "8", "9", "+", "/" >>

B64(n) == B64Alphabet[n + 1]

RECURSIVE b64encode(_)
b64encode(b) ==
  IF Len(b) = 0 THEN <<>>
  ELSE IF Len(b) = 1 THEN
    <<B64(b[1] \div 4), B64((b[1] % 4) * 16), "=", "=">>
  ELSE IF Len(b) = 2 THEN
    <<B64(b[1] \div 4), B64((b[1] % 4) * 16 + (b[2] \div 16)),
      B64((b[2] % 16) * 4), "=">>
  ELSE
    <<B64(b[1] \div 4), B64((b[1] % 4) * 16 + (b[2] \div 16)),
      B64((b[2] % 16) * 4 + (b[3] \div 64)), B64(b[3] % 64)>>
    \o b64encode(SubSeq(b, 4, Len(b)))

SeqNumber_FromZero(count) == count

\* line 182: processed_count + 1
SeqNumber(count) == count + 1

version_control_PerGroup(base, count) ==
  b64encode(Encode(base \o Str(SeqNumber(2 * count))))

\* lines 182-184
version_control(base, count) ==
  b64encode(Encode(base \o Str(SeqNumber(count))))


\* ------------------------------------------------------------------ input
Keys == {"wiki", "language", "title", "full_text", "opening_text", "popularity_score"}

Rec(w, l, t, ft, ot, p) ==
  [k \in Keys |->
     CASE k = "wiki" -> w
       [] k = "language" -> l
       [] k = "title" -> t
       [] k = "full_text" -> ft
       [] k = "opening_text" -> ot
       [] OTHER -> p]

WikiName == <<"e", "n", "w", "i", "k", "i">>
Lang == <<"e", "n">>
TitleText == <<"A", " ", "b">>
BodyText == <<"a", "1", " ", "U+00E9", "!">>
OpeningText == <<"b", "2">>
Score == <<"0", ".", "5">>

AcceptableLines ==
  { Rec(WikiName, Lang, TitleText, BodyText, OpeningText, Score),
    Rec(WikiName, Lang, TitleText, BodyText, Absent, JsonNull),
    Rec(WikiName, Lang, TitleText, BodyText, JsonNull, JsonNull),
    Rec(WikiName, Lang, TitleText, <<>>, OpeningText, Absent) }

RejectableLines ==
  { Rec(Absent, Lang, TitleText, BodyText, OpeningText, Score),
    Rec(JsonNull, Lang, TitleText, BodyText, OpeningText, Score),
    Rec(<<>>, Lang, TitleText, BodyText, OpeningText, Score),
    Rec(WikiName, Absent, TitleText, BodyText, OpeningText, Score),
    Rec(WikiName, <<>>, TitleText, BodyText, Absent, Score),
    Rec(WikiName, Lang, Absent, BodyText, OpeningText, Score),
    Rec(WikiName, Lang, JsonNull, Absent, OpeningText, Score),
    Rec(WikiName, Lang, <<>>, BodyText, OpeningText, Score),
    Rec(WikiName, Lang, TitleText, Absent, JsonNull, Score),
    Rec(WikiName, Lang, TitleText, <<>>, <<>>, Score) }

\* A line of the dump: the text of a JSON object, or text json.loads rejects.
NoObject == Rec(Absent, Absent, Absent, Absent, Absent, Absent)
Line(obj) == [kind |-> "object", obj |-> obj]
Malformed == [kind |-> "garbage", obj |-> NoObject]
NoLine == [kind |-> "none", obj |-> NoObject]

Lines == {Line(o) : o \in AcceptableLines \cup RejectableLines} \cup {Malformed}

CappedLines ==
  { Line(Rec(WikiName, Lang, TitleText, BodyText, OpeningText, Score)),
    Line(Rec(WikiName, Lang, TitleText, Absent, JsonNull, Score)),
    Malformed }

ExtractOptions == {"abstract", "full_text", "both"}
CleanFlags == {"yes", "no"}
BaseValues == {<<"1", "2", "3">>}
CappedBaseValues == {<<"2", "0">>}
Prefixes == {WikiName}

\* dict.get(key, None): an absent key and a JSON null both read as None.
Get(entry, key) ==
  IF entry[key] = Absent \/ entry[key] = JsonNull THEN None ELSE entry[key]

\* ------------------------------------------------------------------ state
VARIABLES
  pc,                          \* position of main: the loop, the statements after it
  user_prefix, base_value,     \* lines 119, 134
  extract_option, clean_text_flag, checkpoint_interval,   \* lines 140-142
  extract_all,                 \* line 153
  downloaded_file,             \* the opened dump: how many lines it may hold, and which
  i, line,                     \* lines consumed, the line of the iteration (none after the loop)
  data_abstract, data_full_text,
  checkpoint_data_abstract, checkpoint_data_full_text,
  processed_count, checkpoint_num,
  checkpoint_folder,           \* the scratch directory: exists, files by path
  final_files,                 \* the output files written so far, by path
  saved,                       \* the save_checkpoint calls made, in order
  cleaning,                    \* clean_text called on a text, and again on its result
  twin                         \* one dump streamed with cleaning on and with cleaning off

vars ==
  << pc, user_prefix, base_value, extract_option, clean_text_flag,
     checkpoint_interval, extract_all, downloaded_file, i, line,
     data_abstract, data_full_text, checkpoint_data_abstract,
     checkpoint_data_full_text, processed_count, checkpoint_num,
     checkpoint_folder, final_files, saved, cleaning, twin >>

\* What a step of main leaves alone: the run's options, and the calls made
\* outside a run.
options ==
  << user_prefix, base_value, extract_option, clean_text_flag,
     checkpoint_interval, extract_all, downloaded_file, cleaning, twin >>

accumulators ==
  << data_abstract, data_full_text, checkpoint_data_abstract,
     checkpoint_data_full_text, processed_count, checkpoint_num >>

EmptyMap == [x \in {} |-> <<>>]

InitCommon ==
  /\ pc = "STREAMING"
  /\ user_prefix \in Prefixes
  /\ i = 0
  /\ line = NoLine
  /\ data_abstract = <<>>
  /\ data_full_text = <<>>
  /\ checkpoint_data_abstract = <<>>
  /\ checkpoint_data_full_text = <<>>
  /\ processed_count = 0
  /\ checkpoint_num = 0
  /\ checkpoint_folder = [exists |-> FALSE, files |-> EmptyMap]
  /\ final_files = EmptyMap
  /\ saved = <<>>

\* extract_all as line 153 sets it, over short dumps of every kind of line.
InitAll ==
  /\ base_value \in BaseValues
  /\ extract_option \in ExtractOptions
  /\ clean_text_flag \in CleanFlags
  /\ checkpoint_interval \in 1..MaxInterval
  /\ extract_all = TRUE
  /\ downloaded_file = [max_lines |-> MaxLines, lines |-> Lines]

\* The capped run mode: extract_all false, over a dump long enough to reach the limit.
InitCapped ==
  /\ base_value \in CappedBaseValues
  /\ extract_option \in {"abstract", "both"}
  /\ clean_text_flag = "no"
  /\ checkpoint_interval = CappedInterval
  /\ extract_all = FALSE
  /\ downloaded_file = [max_lines |-> limit + CappedExtraLines, lines |-> CappedLines]

NoCall == [step |-> "none", text |-> None, once |-> None, twice |-> None]

\* The accumulators, the scratch directory and the call log of a run, as main
\* sets them at lines 149-156.
NoRun ==
  [data_abstract |-> <<>>, data_full_text |-> <<>>,
   checkpoint_data_abstract |-> <<>>, checkpoint_data_full_text |-> <<>>,
   processed_count |-> 0, checkpoint_num |-> 0,
   folder |-> [exists |-> FALSE, files |-> EmptyMap], log |-> <<>>]

NoTwin == [phase |-> "none", n |-> 0, yes |-> NoRun, no |-> NoRun]

Init == InitCommon /\ (InitAll \/ InitCapped) /\ cleaning = NoCall /\ twin = NoTwin


\* ------------------------------------------------------------------ record transformer
RequestsFullText(opt) == opt \in {"full_text", "both"}
RequestsAbstract(opt) == opt \in {"abstract", "both"}

FullTextOf(e, opt) == IF RequestsFullText(opt) THEN Get(e, "full_text") ELSE None
AbstractOf(e, opt) == IF RequestsAbstract(opt) THEN Get(e, "opening_text") ELSE None

Gate_NoTitle(wiki, language, title, full_text, abstract) ==
  /\ Truthy(wiki)
  /\ Truthy(language)
  /\ Truthy(IF Truthy(full_text) THEN full_text ELSE abstract)

\* all([wiki, language, title, (full_text if full_text else abstract)])
Gate(wiki, language, title, full_text, abstract) ==
  /\ Truthy(wiki)
  /\ Truthy(language)
  /\ Truthy(title)
  /\ Truthy(IF Truthy(full_text) THEN full_text ELSE abstract)

Accepted(e, opt) ==
  Gate(Get(e, "wiki"), Get(e, "language"), Get(e, "title"),
       FullTextOf(e, opt), AbstractOf(e, opt))

Url(language_code, title) ==
  IF Truthy(format_title(title))
  THEN <<"https://">> \o language_code \o <<".wikipedia.org/wiki/">> \o format_title(title)
  ELSE None

Cleaned(text, flag) ==
  IF flag = "yes" /\ Truthy(text) THEN clean_text(text) ELSE text

AppendsAbstract(opt) == opt \in {"abstract", "both"}
AppendsFullText(opt) == opt \in {"full_text", "both"}

\* The dict built for an accepted line, with the keys it has once the iteration
\* has run (the lists hold the one dict object, so a key set after an append
\* is seen through both lists).
EntryData_CleansTitle(e, opt, flag, prefix, base, count) ==
  LET core == [k \in {"URL", "Wiki", "Language", "Title", "Version Control",
                      "Popularity Score"} |->
                 CASE k = "URL" -> Url(extract_language_code(prefix), Get(e, "title"))
                   [] k = "Wiki" -> Get(e, "wiki")
                   [] k = "Language" -> Get(e, "language")
                   [] k = "Title" -> Cleaned(Get(e, "title"), flag)
                   [] k = "Version Control" -> version_control(base, count)
                   [] OTHER -> Get(e, "popularity_score")]
      withAbstract ==
        IF AppendsAbstract(opt)
        THEN ("Abstract" :> Cleaned(AbstractOf(e, opt), flag)) @@ core
        ELSE core
  IN IF AppendsFullText(opt)
     THEN ("Full Text" :> Cleaned(FullTextOf(e, opt), flag)) @@ withAbstract
     ELSE withAbstract

EntryData(e, opt, flag, prefix, base, count) ==
  LET core == [k \in {"URL", "Wiki", "Language", "Title", "Version Control",
                      "Popularity Score"} |->
                 CASE k = "URL" -> Url(extract_language_code(prefix), Get(e, "title"))
                   [] k = "Wiki" -> Get(e, "wiki")
                   [] k = "Language" -> Get(e, "language")
                   [] k = "Title" -> Get(e, "title")
                   [] k = "Version Control" -> version_control(base, count)
                   [] OTHER -> Get(e, "popularity_score")]
      withAbstract ==
        IF AppendsAbstract(opt)
        THEN ("Abstract" :> Cleaned(AbstractOf(e, opt), flag)) @@ core
        ELSE core
  IN IF AppendsFullText(opt)
     THEN ("Full Text" :> Cleaned(FullTextOf(e, opt), flag)) @@ withAbstract
     ELSE withAbstract

\* ------------------------------------------------------------------ checkpoint writer
DotParquet == <<".", "p", "a", "r", "q", "u", "e", "t">>

EndsWith(s, suffix) ==
  /\ Len(s) >= Len(suffix)
  /\ SubSeq(s, Len(s) - Len(suffix) + 1, Len(s)) = suffix

\* TRUE when validate_output_file returns, FALSE when it raises ValueError.
validate_output_file(output_file_path) == EndsWith(output_file_path, DotParquet)

CheckpointPath(num, column_name) ==
  <<"c", "h", "e", "c", "k", "p", "o", "i", "n", "t", "_">> \o Str(num) \o DotParquet

Schema(column_name) ==
  <<"URL", "Wiki", "Language", "Title", column_name, "Version Control",
    "Popularity Score">>

Columns(column_name) == {Schema(column_name)[k] : k \in 1..7}

\* pa.Table.from_pydict over the seven columns
Table(data, column_name) ==
  [schema |-> Schema(column_name),
   rows |-> [k \in 1..Len(data) |-> [c \in Columns(column_name) |-> data[k][c]]]]

save_checkpoint(folder, data, num, column_name) ==
  [exists |-> TRUE,
   files |-> (CheckpointPath(num, column_name) :> Table(data, column_name))
             @@ folder.files]

SaveRecord(data, num, column_name, site) ==
  [path |-> CheckpointPath(num, column_name), num |-> num,
   column_name |-> column_name, rows |-> Len(data), site |-> site]


\* ------------------------------------------------------------------ pipeline driver
LimitReached_OffByOne == ~extract_all /\ processed_count > limit

\* line 160
LimitReached == ~extract_all /\ processed_count >= limit

FlushDue(count, interval) == count % interval = 0

\* The shared index after the interval check of an accepted line.
IntervalNum(num, due) == IF due THEN num + 1 ELSE num

SaveIf_EvenEmpty(cond, state, data, num, column_name, site) ==
  IF cond
  THEN [folder |-> save_checkpoint(state.folder, data, num, column_name),
        log |-> Append(state.log, SaveRecord(data, num, column_name, site))]
  ELSE state

\* One guarded save_checkpoint call: the folder and the call log after it.
SaveIf(cond, state, data, num, column_name, site) ==
  IF cond /\ data # <<>>
  THEN [folder |-> save_checkpoint(state.folder, data, num, column_name),
        log |-> Append(state.log, SaveRecord(data, num, column_name, site))]
  ELSE state

Cleared_Never(cond, data) == data

\* lines 211, 214: the list is emptied after its save
Cleared(cond, data) == IF cond /\ data # <<>> THEN <<>> ELSE data

\* lines 165-216 for a parsed line, on the accumulators, folder and log of a run
Iteration(r, obj, opt, flag, prefix, base, interval) ==
  IF ~Accepted(obj, opt) THEN r
  ELSE
    LET d == EntryData(obj, opt, flag, prefix, base, r.processed_count)
        cda == IF AppendsAbstract(opt)
               THEN Append(r.checkpoint_data_abstract, d)
               ELSE r.checkpoint_data_abstract
        cdf == IF AppendsFullText(opt)
               THEN Append(r.checkpoint_data_full_text, d)
               ELSE r.checkpoint_data_full_text
        count == r.processed_count + 1
        due == FlushDue(count, interval)
        num == IntervalNum(r.checkpoint_num, due)
        s0 == [folder |-> r.folder, log |-> r.log]
        s1 == SaveIf(due, s0, cda, num, "Abstract", "interval")
        s2 == SaveIf(due, s1, cdf, num, "Full Text", "interval")
    IN [data_abstract |-> IF AppendsAbstract(opt)
                          THEN Append(r.data_abstract, d) ELSE r.data_abstract,
        data_full_text |-> IF AppendsFullText(opt)
                           THEN Append(r.data_full_text, d) ELSE r.data_full_text,
        checkpoint_data_abstract |-> Cleared(due, cda),
        checkpoint_data_full_text |-> Cleared(due, cdf),
        processed_count |-> count,
        checkpoint_num |-> num,
        folder |-> s2.folder,
        log |-> s2.log]

ReadLine(l) ==
  /\ pc = "STREAMING"
  /\ i < downloaded_file.max_lines
  /\ l \in downloaded_file.lines
  /\ i' = i + 1
  /\ line' = l

\* line 160-161: the limit stops the loop; the line just read is not parsed.
Break ==
  /\ \E l \in downloaded_file.lines : ReadLine(l)
  /\ LimitReached
  /\ pc' = "RESIDUAL_ABSTRACT"
  /\ UNCHANGED <<options, accumulators, checkpoint_folder, final_files, saved>>

ParseError_Skip ==
  /\ \E l \in downloaded_file.lines : ReadLine(l) /\ l.kind = "garbage"
  /\ ~LimitReached
  /\ UNCHANGED <<pc, options, accumulators, checkpoint_folder, final_files, saved>>

\* line 163: json.loads raises, nothing catches it.
ParseError ==
  /\ \E l \in downloaded_file.lines : ReadLine(l) /\ l.kind = "garbage"
  /\ ~LimitReached
  /\ pc' = "ABORTED"
  /\ UNCHANGED <<options, accumulators, checkpoint_folder, final_files, saved>>

Reject_Counts ==
  /\ \E l \in downloaded_file.lines :
       /\ ReadLine(l)
       /\ l.kind = "object"
       /\ ~Accepted(l.obj, extract_option)
  /\ ~LimitReached
  /\ processed_count' = processed_count + 1
  /\ UNCHANGED <<pc, options, data_abstract, data_full_text,
                 checkpoint_data_abstract, checkpoint_data_full_text,
                 checkpoint_num, checkpoint_folder, final_files, saved>>

\* lines 165-172, the gate is false
Reject ==
  /\ \E l \in downloaded_file.lines :
       /\ ReadLine(l)
       /\ l.kind = "object"
       /\ ~Accepted(l.obj, extract_option)
  /\ ~LimitReached
  /\ UNCHANGED <<pc, options, accumulators, checkpoint_folder, final_files, saved>>

\* lines 165-216, the gate is true
Accept ==
  /\ ~LimitReached
  /\ \E l \in downloaded_file.lines :
       /\ ReadLine(l)
       /\ l.kind = "object"
       /\ Accepted(l.obj, extract_option)
       /\ LET r == Iteration(
                     [data_abstract |-> data_abstract,
                      data_full_text |-> data_full_text,
                      checkpoint_data_abstract |-> checkpoint_data_abstract,
                      checkpoint_data_full_text |-> checkpoint_data_full_text,
                      processed_count |-> processed_count,
                      checkpoint_num |-> checkpoint_num,
                      folder |-> checkpoint_folder, log |-> saved],
                     l.obj, extract_option, clean_text_flag, user_prefix,
                     base_value, checkpoint_interval)
          IN /\ data_abstract' = r.data_abstract
             /\ data_full_text' = r.data_full_text
             /\ processed_count' = r.processed_count
             /\ checkpoint_num' = r.checkpoint_num
             /\ checkpoint_data_abstract' = r.checkpoint_data_abstract
             /\ checkpoint_data_full_text' = r.checkpoint_data_full_text
             /\ checkpoint_folder' = r.folder
             /\ saved' = r.log
  /\ UNCHANGED <<pc, options, final_files>>

\* the for loop ends: the file has no further line
EndOfInput ==
  /\ pc = "STREAMING"
  /\ i <= downloaded_file.max_lines
  /\ pc' = "RESIDUAL_ABSTRACT"
  /\ line' = NoLine
  /\ UNCHANGED <<options, i, accumulators, checkpoint_folder, final_files, saved>>

ResidualNum_Same(num, data) == num

\* The index a residual flush writes under.
ResidualNum(num, data) == IF data # <<>> THEN num + 1 ELSE num

\* lines 218-220
ResidualAbstract ==
  /\ pc = "RESIDUAL_ABSTRACT"
  /\ LET num == ResidualNum(checkpoint_num, checkpoint_data_abstract)
         s1 == SaveIf(TRUE, [folder |-> checkpoint_folder, log |-> saved],
                      checkpoint_data_abstract, num, "Abstract", "residual")
     IN /\ checkpoint_num' = num
        /\ checkpoint_folder' = s1.folder
        /\ saved' = s1.log
  /\ pc' = "RESIDUAL_FULL_TEXT"
  /\ UNCHANGED <<options, i, line, data_abstract, data_full_text,
                 checkpoint_data_abstract, checkpoint_data_full_text,
                 processed_count, final_files>>

\* lines 222-224
ResidualFullText ==
  /\ pc = "RESIDUAL_FULL_TEXT"
  /\ LET num == ResidualNum(checkpoint_num, checkpoint_data_full_text)
         s1 == SaveIf(TRUE, [folder |-> checkpoint_folder, log |-> saved],
                      checkpoint_data_full_text, num, "Full Text", "residual")
     IN /\ checkpoint_num' = num
        /\ checkpoint_folder' = s1.folder
        /\ saved' = s1.log
  /\ pc' = "FINAL_ABSTRACT"
  /\ UNCHANGED <<options, i, line, data_abstract, data_full_text,
                 checkpoint_data_abstract, checkpoint_data_full_text,
                 processed_count, final_files>>

OutputFile(prefix, column_name) ==
  prefix
  \o (IF column_name = "Abstract"
      THEN <<"_", "a", "b", "s", "t", "r", "a", "c", "t">>
      ELSE <<"_", "f", "u", "l", "l", "_", "t", "e", "x", "t">>)
  \o DotParquet

WriteFinal_Always(files, data, prefix, column_name) ==
  (OutputFile(prefix, column_name) :> Table(data, column_name)) @@ files

\* pq.write_table of a non-empty full-run list; an empty one writes nothing.
WriteFinal(files, data, prefix, column_name) ==
  IF data # <<>>
  THEN (OutputFile(prefix, column_name) :> Table(data, column_name)) @@ files
  ELSE files

\* lines 227-238
FinalAbstract ==
  /\ pc = "FINAL_ABSTRACT"
  /\ final_files' = WriteFinal(final_files, data_abstract, user_prefix, "Abstract")
  /\ pc' = "FINAL_FULL_TEXT"
  /\ UNCHANGED <<options, i, line, accumulators, checkpoint_folder, saved>>

\* lines 240-251
FinalFullText ==
  /\ pc = "FINAL_FULL_TEXT"
  /\ final_files' = WriteFinal(final_files, data_full_text, user_prefix, "Full Text")
  /\ pc' = "CLEANUP"
  /\ UNCHANGED <<options, i, line, accumulators, checkpoint_folder, saved>>

Cleanup_Early ==
  /\ pc = "FINAL_FULL_TEXT"
  /\ \/ checkpoint_folder' = [exists |-> FALSE, files |-> EmptyMap]
     \/ checkpoint_folder' = checkpoint_folder
  /\ pc' = "DONE"
  /\ UNCHANGED <<options, i, line, accumulators, final_files, saved>>

Cleanup_Surfaces ==
  /\ pc = "CLEANUP"
  /\ \/ checkpoint_folder' = [exists |-> FALSE, files |-> EmptyMap] /\ pc' = "DONE"
     \/ checkpoint_folder' = checkpoint_folder /\ pc' = "ABORTED"
  /\ UNCHANGED <<options, i, line, accumulators, final_files, saved>>

\* line 253: shutil.rmtree(..., ignore_errors=True) removes the folder, or fails
\* and says nothing.
Cleanup ==
  /\ pc = "CLEANUP"
  /\ \/ checkpoint_folder' = [exists |-> FALSE, files |-> EmptyMap]
     \/ checkpoint_folder' = checkpoint_folder
  /\ pc' = "DONE"
  /\ UNCHANGED <<options, i, line, accumulators, final_files, saved>>

Next ==
  \/ Break
  \/ ParseError
  \/ Reject
  \/ Accept
  \/ EndOfInput
  \/ ResidualAbstract
  \/ ResidualFullText
  \/ FinalAbstract
  \/ FinalFullText
  \/ Cleanup

Spec == Init /\ [][Next]_vars

\* main is one sequential thread: while a statement is left to run, it runs.
SpecLive == Init /\ [][Next]_vars /\ WF_vars(Next)

\* ------------------------------------------------------------------ clean_text alone
TextChars == {"a", "U+00E9", " ", "1", "!"}

RECURSIVE TextsOfLen(_)
TextsOfLen(n) ==
  IF n = 0 THEN {<<>>}
  ELSE {Append(t, c) : t \in TextsOfLen(n - 1), c \in TextChars}

Texts == {None} \cup UNION {TextsOfLen(n) : n \in 0..MaxTextLen}

main_state ==
  << pc, user_prefix, base_value, extract_option, clean_text_flag,
     checkpoint_interval, extract_all, downloaded_file, i, line,
     data_abstract, data_full_text, checkpoint_data_abstract,
     checkpoint_data_full_text, processed_count, checkpoint_num,
     checkpoint_folder, final_files, saved >>

InitClean ==
  /\ InitCommon
  /\ base_value \in BaseValues
  /\ extract_option = "both"
  /\ clean_text_flag = "yes"
  /\ checkpoint_interval = 1
  /\ extract_all = TRUE
  /\ downloaded_file = [max_lines |-> 0, lines |-> {}]
  /\ \E t \in Texts :
       cleaning = [step |-> "text", text |-> t, once |-> None, twice |-> None]
  /\ twin = NoTwin

CleanOnce ==
  /\ cleaning.step = "text"
  /\ cleaning' = [cleaning EXCEPT !.step = "once", !.once = clean_text(cleaning.text)]
  /\ UNCHANGED <<main_state, twin>>

CleanTwice ==
  /\ cleaning.step = "once"
  /\ cleaning' = [cleaning EXCEPT !.step = "twice", !.twice = clean_text(cleaning.once)]
  /\ UNCHANGED <<main_state, twin>>

NextClean == CleanOnce \/ CleanTwice

SpecClean == InitClean /\ [][NextClean]_vars



\* ------------------------------------------------------------------ two runs on one dump
\* main is run twice on the same options and the same dump, once answering
\* "yes" and once answering anything else to the cleaning prompt of line 141.
\* Both runs read the same line at each step of the loop.
SymbolsText == <<"1", "!">>

TwinLines == Lines \cup {Line(Rec(WikiName, Lang, TitleText, SymbolsText, Absent, Score))}

InitTwin ==
  /\ InitCommon
  /\ base_value \in BaseValues
  /\ extract_option \in ExtractOptions
  /\ clean_text_flag = "yes"
  /\ checkpoint_interval \in 1..MaxInterval
  /\ extract_all = TRUE
  /\ downloaded_file = [max_lines |-> MaxLines, lines |-> TwinLines]
  /\ cleaning = NoCall
  /\ twin = [phase |-> "STREAMING", n |-> 0, yes |-> NoRun, no |-> NoRun]

\* lines 218-224 on the folder and log of a run
ResidualFlush(r) ==
  LET n1 == ResidualNum(r.checkpoint_num, r.checkpoint_data_abstract)
      s0 == [folder |-> r.folder, log |-> r.log]
      s1 == SaveIf(TRUE, s0, r.checkpoint_data_abstract, n1, "Abstract", "residual")
      n2 == ResidualNum(n1, r.checkpoint_data_full_text)
      s2 == SaveIf(TRUE, s1, r.checkpoint_data_full_text, n2, "Full Text", "residual")
  IN [r EXCEPT !.checkpoint_num = n2, !.folder = s2.folder, !.log = s2.log]

\* one iteration of the loop in both runs, on a line json.loads accepts
TwinLine ==
  /\ twin.phase = "STREAMING"
  /\ twin.n < downloaded_file.max_lines
  /\ \E l \in downloaded_file.lines :
       /\ l.kind = "object"
       /\ twin' = [twin EXCEPT
            !.n = @ + 1,
            !.yes = Iteration(@, l.obj, extract_option, "yes", user_prefix,
                              base_value, checkpoint_interval),
            !.no = Iteration(@, l.obj, extract_option, "no", user_prefix,
                             base_value, checkpoint_interval)]
  /\ UNCHANGED <<main_state, cleaning>>

\* line 163 raises in both runs
TwinParseError ==
  /\ twin.phase = "STREAMING"
  /\ twin.n < downloaded_file.max_lines
  /\ Malformed \in downloaded_file.lines
  /\ twin' = [twin EXCEPT !.n = @ + 1, !.phase = "ABORTED"]
  /\ UNCHANGED <<main_state, cleaning>>

\* the loop ends in both runs and each flushes what it holds
TwinEndOfInput ==
  /\ twin.phase = "STREAMING"
  /\ twin' = [twin EXCEPT !.phase = "FLUSHED",
                          !.yes = ResidualFlush(@),
                          !.no = ResidualFlush(@)]
  /\ UNCHANGED <<main_state, cleaning>>

NextTwin == TwinLine \/ TwinParseError \/ TwinEndOfInput

SpecTwin == InitTwin /\ [][NextTwin]_vars

\* ------------------------------------------------------------------ properties
Groups == {"Abstract", "Full Text"}

Requested(column_name) ==
  IF column_name = "Abstract" THEN RequestsAbstract(extract_option)
  ELSE RequestsFullText(extract_option)

FullRun(column_name) ==
  IF column_name = "Abstract" THEN data_abstract ELSE data_full_text

Pending(column_name) ==
  IF column_name = "Abstract" THEN checkpoint_data_abstract
  ELSE checkpoint_data_full_text

\* The rows of the group's artifacts the scratch directory holds, by increasing index.
RECURSIVE ArtifactRows(_, _)
ArtifactRows(n, column_name) ==
  IF n = 0 THEN <<>>
  ELSE LET path == CheckpointPath(n, column_name)
           held == /\ path \in DOMAIN checkpoint_folder.files
                   /\ checkpoint_folder.files[path].schema = Schema(column_name)
       IN ArtifactRows(n - 1, column_name)
          \o (IF held THEN checkpoint_folder.files[path].rows ELSE <<>>)

FinalRows(column_name) ==
  IF OutputFile(user_prefix, column_name) \in DOMAIN final_files
  THEN final_files[OutputFile(user_prefix, column_name)].rows
  ELSE <<>>

\* C1: when the final output files have been written, each requested group's
\* checkpoint artifacts in the scratch directory, concatenated by increasing
\* index, hold exactly the rows of that group's final output file, in order.
C1_RoundTrip ==
  pc = "CLEANUP" =>
    \A g \in Groups :
      Requested(g) => ArtifactRows(checkpoint_num, g) = FinalRows(g)

OwnText(obj, column_name) ==
  IF column_name = "Abstract" THEN obj["opening_text"] ELSE obj["full_text"]

Missing(v) == v = Absent \/ v = JsonNull \/ v = <<>>

LineProcessed == i' = i + 1 /\ line'.kind = "object" /\ pc' = "STREAMING"

\* C2: in both mode a line is appended to a group's full-run and
\* current-checkpoint sequences only if that group's own text field is present.
C2_OwnTextOnly ==
  [][ (LineProcessed /\ extract_option = "both") =>
        \A g \in Groups :
          Len(FullRun(g)') > Len(FullRun(g)) => ~Missing(OwnText(line'.obj, g)) ]_vars

\* C3: no two save_checkpoint calls of a run write to the same path.
C3_WriteOnce ==
  \A a, b \in 1..Len(saved) : a # b => saved[a].path # saved[b].path


\* C4: a line whose wiki, language or title is missing is appended to none of
\* the four sequences, whatever its text fields and the extract option; a line
\* with all three and at least one requested text field present is accepted.
C4_AcceptanceGate ==
  [][ (i' = i + 1 /\ line'.kind = "object") =>
        LET obj == line'.obj
            requestedText ==
              \E g \in Groups : Requested(g) /\ ~Missing(OwnText(obj, g))
        IN /\ (Missing(obj["wiki"]) \/ Missing(obj["language"]) \/ Missing(obj["title"]))
                => UNCHANGED <<data_abstract, data_full_text,
                               checkpoint_data_abstract, checkpoint_data_full_text>>
           /\ ( /\ ~Missing(obj["wiki"])
                /\ ~Missing(obj["language"])
                /\ ~Missing(obj["title"])
                /\ requestedText
                /\ ~LimitReached )
                => /\ processed_count' = processed_count + 1
                   /\ \E g \in Groups : Len(FullRun(g)') = Len(FullRun(g)) + 1 ]_vars

C4_Witness ==
  /\ pc = "STREAMING"
  /\ line.kind = "object"
  /\ Missing(line.obj["title"])
  /\ ~Missing(line.obj["full_text"])
  /\ processed_count > 0

\* C5: at DONE a group's final output file exists exactly when a record was
\* accepted into the group, and an existing file holds as many rows as records
\* were accepted, at least one.
C5_FinalFileIffAccepted ==
  pc = "DONE" =>
    \A g \in Groups :
      LET path == OutputFile(user_prefix, g)
      IN /\ path \in DOMAIN final_files <=> FullRun(g) # <<>>
         /\ path \in DOMAIN final_files =>
              /\ final_files[path].rows # <<>>
              /\ Len(final_files[path].rows) = Len(FullRun(g))

C5_Witness ==
  /\ pc = "DONE"
  /\ OutputFile(user_prefix, "Abstract") \in DOMAIN final_files
  /\ OutputFile(user_prefix, "Full Text") \notin DOMAIN final_files

TagOf(n) == b64encode(Encode(base_value \o Str(n)))

\* C6: the n-th accepted line carries the tag base64(base_value + str(n)), n from
\* 1 (base_value "123": "MTIzMQ==", then "MTIzMg=="); the tags of a run are
\* pairwise distinct, and the numbering runs on across checkpoint flushes.
C6_VersionControl ==
  \A g \in Groups :
    /\ Requested(g) => Len(FullRun(g)) = processed_count
    /\ \A n \in 1..Len(FullRun(g)) :
         /\ FullRun(g)[n]["Version Control"] = TagOf(n)
         /\ \A m \in 1..(n - 1) :
              FullRun(g)[m]["Version Control"] # FullRun(g)[n]["Version Control"]
    /\ (base_value = <<"1", "2", "3">> /\ Len(FullRun(g)) >= 2) =>
         /\ FullRun(g)[1]["Version Control"] = <<"M", "T", "I", "z", "M", "Q", "=", "=">>
         /\ FullRun(g)[2]["Version Control"] = <<"M", "T", "I", "z", "M", "g", "=", "=">>

C6_Witness ==
  /\ checkpoint_num >= 1
  /\ Len(data_abstract) >= 3
  /\ checkpoint_data_abstract # <<>>
  /\ Len(checkpoint_data_abstract) < Len(data_abstract)

Ceil(n, k) == (n + k - 1) \div k

\* C7: in a single-group run with interval k and n accepted lines, one flush
\* follows each accepted line whose count is a multiple of k, a residual flush
\* follows the stream when n mod k # 0, and the ceil(n/k) flushes carry the
\* indices 1, 2, ..., ceil(n/k).
C7_FlushCount ==
  extract_option # "both" =>
    LET n == processed_count
        k == checkpoint_interval
    IN /\ pc = "STREAMING" => Len(saved) = n \div k /\ checkpoint_num = n \div k
       /\ pc \in {"FINAL_ABSTRACT", "FINAL_FULL_TEXT", "CLEANUP", "DONE"} =>
            /\ Len(saved) = Ceil(n, k)
            /\ checkpoint_num = Ceil(n, k)
       /\ \A j \in 1..Len(saved) :
            /\ saved[j].num = j
            /\ j <= n \div k => saved[j].site = "interval" /\ saved[j].rows = k
            /\ j > n \div k => saved[j].site = "residual" /\ saved[j].rows = n % k

C7_Witness ==
  /\ extract_option = "abstract"
  /\ pc = "DONE"
  /\ checkpoint_interval = 2
  /\ processed_count = 3
  /\ Len(saved) = 2
  /\ saved[2].site = "residual"

\* C8: a line json.loads rejects aborts the run at that line: no step follows,
\* no final output file is written, the folder is not deleted and the
\* artifacts saved before the failure are still in it.
C8_MalformedIsFatal ==
  /\ [](pc = "ABORTED" =>
          /\ line.kind = "garbage"
          /\ DOMAIN final_files = {}
          /\ checkpoint_folder.exists = (saved # <<>>)
          /\ \A j \in 1..Len(saved) : saved[j].path \in DOMAIN checkpoint_folder.files)
  /\ [][ /\ pc # "ABORTED"
         /\ (i' = i + 1 /\ line'.kind = "garbage" /\ ~LimitReached) =>
              /\ pc' = "ABORTED"
              /\ UNCHANGED <<accumulators, checkpoint_folder, final_files, saved>> ]_vars

C8_Witness ==
  /\ pc = "ABORTED"
  /\ line.kind = "garbage"
  /\ saved # <<>>
  /\ checkpoint_data_abstract # <<>>

RECURSIVE RowsSaved(_, _)
RowsSaved(n, column_name) ==
  IF n = 0 THEN 0
  ELSE RowsSaved(n - 1, column_name)
       + (IF saved[n].column_name = column_name THEN saved[n].rows ELSE 0)

\* C10: with extract_all false at most 50 lines are ever accepted, the loop
\* ends at the first line read once 50 are accepted, and the residual flush and
\* the final output files cover every line accepted.
C10_CappedRun ==
  /\ [](~extract_all => processed_count <= limit)
  /\ [][ (~extract_all /\ pc = "STREAMING" /\ processed_count = limit) =>
           (pc' = "RESIDUAL_ABSTRACT" /\ UNCHANGED accumulators) ]_vars
  /\ []((~extract_all /\ pc \in {"CLEANUP", "DONE"}) =>
          \A g \in Groups :
            Requested(g) =>
              /\ Len(FullRun(g)) = processed_count
              /\ FinalRows(g) = Table(FullRun(g), g).rows
              /\ RowsSaved(Len(saved), g) = processed_count)

C10_Witness ==
  /\ ~extract_all
  /\ pc = "DONE"
  /\ processed_count = limit
  /\ i = limit + 1
  /\ saved[Len(saved)].site = "residual"


\* C11: clean_text is idempotent on every text, the empty one and those without
\* a letter or whitespace included, and its result keeps the letters and
\* whitespace of the text in order and nothing else.
C11_CleanIdempotent ==
  cleaning.step = "twice" =>
    /\ cleaning.twice = cleaning.once
    /\ cleaning.text # None =>
         cleaning.once = SelectSeq(cleaning.text,
                                   LAMBDA c : c \in {"a", "U+00E9", " "})


IntervalEvents ==
  Cardinality({saved[j].num : j \in {x \in 1..Len(saved) : saved[x].site = "interval"}})

ResidualSaves == {j \in 1..Len(saved) : saved[j].site = "residual"}

\* C12: the shared index advances by one per flush event: by one at an interval
\* flush even when both groups are written, by one more at the end of the
\* stream when any group has residual records, and not at all otherwise.
C12_IndexOncePerEvent ==
  /\ [][ (pc = "STREAMING" /\ pc' = "STREAMING") =>
           checkpoint_num' = checkpoint_num + (IF saved' # saved THEN 1 ELSE 0) ]_vars
  /\ [](pc \in {"FINAL_ABSTRACT", "FINAL_FULL_TEXT", "CLEANUP", "DONE"} =>
          checkpoint_num = IntervalEvents + (IF ResidualSaves # {} THEN 1 ELSE 0))


FinalWritten(column_name) ==
  /\ OutputFile(user_prefix, column_name) \in DOMAIN final_files
  /\ final_files[OutputFile(user_prefix, column_name)].rows
       = Table(FullRun(column_name), column_name).rows

\* C13: the phases follow one another: a final output file is written only
\* after the loop has ended and every residual sequence is flushed, the scratch
\* directory goes only once each non-empty group's final file is written, and
\* after that nothing is written.
C13_PhaseOrder ==
  /\ [][ /\ final_files' # final_files =>
              /\ pc \in {"FINAL_ABSTRACT", "FINAL_FULL_TEXT"}
              /\ \A g \in Groups : RowsSaved(Len(saved), g) = Len(FullRun(g))
         /\ saved' # saved =>
              /\ pc \in {"STREAMING", "RESIDUAL_ABSTRACT", "RESIDUAL_FULL_TEXT"}
              /\ DOMAIN final_files = {}
         /\ (checkpoint_folder.exists /\ ~checkpoint_folder'.exists) =>
              /\ pc = "CLEANUP"
              /\ \A g \in Groups : FullRun(g) # <<>> => FinalWritten(g)
         /\ pc' = "DONE" =>
              \A g \in Groups : FullRun(g) # <<>> => FinalWritten(g)
         /\ pc # "DONE" ]_vars
  /\ [](DOMAIN final_files # {} => pc \in {"FINAL_FULL_TEXT", "CLEANUP", "DONE"})

C13_Witness ==
  /\ pc = "DONE"
  /\ ~checkpoint_folder.exists
  /\ saved # <<>>
  /\ FinalWritten("Abstract")
  /\ FinalWritten("Full Text")
  /\ saved[Len(saved)].site = "residual"


\* C14: a run that meets no malformed line reaches DONE, whatever the
\* checkpoint interval, and the step that deletes the scratch directory ends in
\* DONE whether the deletion succeeds or not.
C14_ReachesDone ==
  /\ ([](line.kind # "garbage")) => <>(pc = "DONE")
  /\ [][pc = "CLEANUP" => pc' = "DONE"]_vars

C14_Witness ==
  /\ pc = "DONE"
  /\ checkpoint_folder.exists
  /\ checkpoint_folder.files # EmptyMap
  /\ processed_count > 0


\* C15: no artifact without rows is ever written: a group whose
\* current-checkpoint sequence is empty is skipped at every flush, so a
\* single-group run writes no artifact for the other group, while the index
\* advances at every interval flush point all the same.
C15_NoEmptyArtifact ==
  /\ \A j \in 1..Len(saved) :
       /\ saved[j].rows > 0
       /\ Requested(saved[j].column_name)
  /\ \A path \in DOMAIN checkpoint_folder.files :
       /\ checkpoint_folder.files[path].rows # <<>>
       /\ \E g \in Groups :
            Requested(g) /\ checkpoint_folder.files[path].schema = Schema(g)
  /\ pc = "STREAMING" => checkpoint_num = processed_count \div checkpoint_interval

C15_Witness ==
  /\ extract_option = "full_text"
  /\ pc = "DONE"
  /\ checkpoint_folder.exists
  /\ Len(saved) >= 2
  /\ saved[1].site = "interval"
  /\ saved[Len(saved)].site = "residual"


\* C16: one counter numbers the accepted lines for both groups: it advances by
\* one with each accepted line, a line in both groups carries one tag, and the
\* tag of a row of either final output file is numbered by the line's place
\* among all accepted lines.
C16_SharedCounter ==
  /\ [][ /\ processed_count' \in {processed_count, processed_count + 1}
         /\ \A g \in Groups :
              FullRun(g)' # FullRun(g) =>
                /\ processed_count' = processed_count + 1
                /\ FullRun(g)' = Append(FullRun(g), FullRun(g)'[Len(FullRun(g)')])
                /\ FullRun(g)'[Len(FullRun(g)')]["Version Control"]
                     = TagOf(processed_count') ]_vars
  /\ [](extract_option = "both" =>
          /\ Len(data_abstract) = Len(data_full_text)
          /\ \A n \in 1..Len(data_abstract) :
               data_abstract[n]["Version Control"] = data_full_text[n]["Version Control"])
  /\ [](pc \in {"CLEANUP", "DONE"} =>
          \A g \in Groups :
            /\ Requested(g) => Len(FinalRows(g)) = processed_count
            /\ \A n \in 1..Len(FinalRows(g)) :
                 FinalRows(g)[n]["Version Control"] = TagOf(n))

C16_Witness ==
  /\ extract_option = "both"
  /\ pc = "DONE"
  /\ Len(FinalRows("Abstract")) >= 3
  /\ Len(FinalRows("Full Text")) >= 3
  /\ FinalRows("Abstract")[3]["Abstract"] = None
  /\ FinalRows("Abstract")[3]["Version Control"]
       = FinalRows("Full Text")[3]["Version Control"]


FailsGate(obj) ==
  \/ Missing(obj["wiki"])
  \/ Missing(obj["language"])
  \/ Missing(obj["title"])
  \/ \A g \in Groups : Requested(g) => Missing(OwnText(obj, g))

\* C17: a line that fails the acceptance gate changes nothing of the driver but
\* the place in the stream: counters, the four sequences, the artifacts written
\* and the final files stay as they were, and no flush happens.
C17_RejectedLineIsNoOp ==
  [][ (i' = i + 1 /\ line'.kind = "object" /\ FailsGate(line'.obj)) =>
        /\ UNCHANGED <<accumulators, checkpoint_folder, final_files, saved>>
        /\ pc' = pc \/ LimitReached ]_vars

C17_Witness ==
  /\ pc = "STREAMING"
  /\ line.kind = "object"
  /\ FailsGate(line.obj)
  /\ ~Missing(line.obj["wiki"])
  /\ ~Missing(line.obj["language"])
  /\ ~Missing(line.obj["title"])
  /\ processed_count > 0
  /\ checkpoint_data_full_text # <<>>
  /\ (processed_count + 1) % checkpoint_interval = 0


\* C18: between lines of the stream each group's current-checkpoint sequence
\* holds fewer than checkpoint_interval records and is the tail of the group's
\* full-run sequence accepted since the last flush (empty right after one); a
\* flush never shortens or reorders the full-run sequence.
C18_PendingIsSuffix ==
  /\ [](pc = "STREAMING" =>
          \A g \in Groups :
            LET p == Pending(g)
                f == FullRun(g)
            IN /\ Len(p) < checkpoint_interval
               /\ Len(p) <= Len(f)
               /\ p = SubSeq(f, Len(f) - Len(p) + 1, Len(f))
               /\ Requested(g) => Len(p) = processed_count % checkpoint_interval)
  /\ [][ \A g \in Groups :
           /\ Len(FullRun(g)') >= Len(FullRun(g))
           /\ SubSeq(FullRun(g)', 1, Len(FullRun(g))) = FullRun(g)
           /\ (pc = "STREAMING" /\ saved' # saved) => Pending(g)' = <<>> ]_vars

C18_Witness ==
  /\ pc = "STREAMING"
  /\ checkpoint_interval = 2
  /\ saved # <<>>
  /\ Len(data_abstract) = 3
  /\ Len(checkpoint_data_abstract) = 1
  /\ checkpoint_data_abstract[1] = data_abstract[3]

\* A record, a list of records and a written artifact with the text values
\* blanked out.
TextColumns == {"Abstract", "Full Text"}

NoText(d) == [k \in DOMAIN d |-> IF k \in TextColumns THEN <<>> ELSE d[k]]

NoTextRows(rows) == [j \in 1..Len(rows) |-> NoText(rows[j])]

NoTextRun(r) ==
  [data_abstract |-> NoTextRows(r.data_abstract),
   data_full_text |-> NoTextRows(r.data_full_text),
   checkpoint_data_abstract |-> NoTextRows(r.checkpoint_data_abstract),
   checkpoint_data_full_text |-> NoTextRows(r.checkpoint_data_full_text),
   processed_count |-> r.processed_count,
   checkpoint_num |-> r.checkpoint_num,
   exists |-> r.folder.exists,
   files |-> [f \in DOMAIN r.folder.files |->
                [schema |-> r.folder.files[f].schema,
                 rows |-> NoTextRows(r.folder.files[f].rows)]],
   log |-> r.log]

\* C19: two runs on the same dump and options that differ only in the
\* cleaning flag accept the same records into the same groups with the same
\* Version Control tags and the same counters, and perform the same flush
\* events at the same indices into the same files; their records differ at
\* most in the Abstract and Full Text values.
C19_CleaningOnlyText == twin.phase # "none" => NoTextRun(twin.yes) = NoTextRun(twin.no)

\* Both runs have flushed, and a record whose text cleaning reduces to the
\* empty string is in both runs, with different Full Text values.
C19_Witness ==
  /\ twin.phase = "FLUSHED"
  /\ twin.yes.log # <<>>
  /\ \E j \in 1..Len(twin.no.data_full_text) :
       /\ twin.no.data_full_text[j]["Full Text"] = SymbolsText
       /\ twin.yes.data_full_text[j]["Full Text"] = <<>>

====
